---- MODULE Spec2Model ----
(***************************************************************************)
(* A model of src/tictactoe.py: the board (TicTacToeState over a ChainMap) *)
(* and the match driver (Game.move / Game.play).                           *)
(*                                                                         *)
(* Three specifications share the variables:                               *)
(*   SpecBoard  the board as a value: a board is built by new(size) or     *)
(*              from_str(text) and TicTacToeState.move is applied to it;   *)
(*              str(board) and RandomPlayer.get_move(board) are called on  *)
(*              the boards so built;                                       *)
(*   SpecGrid   every square grid up to MaxSize, built by from_str, and    *)
(*              full(), victory(), game_over() and str() on it;            *)
(*   Spec       a match: TicTacToeGame.new(p1, p2, size=n) run by          *)
(*              Game.play, and Game.move called again once play returned.  *)
(***************************************************************************)
EXTENDS Integers, Sequences, FiniteSets, TLC

\* ------------------------------------------------------------------ bounds
\* Largest size handed to new(size); the largest square grid.
MaxSize == 3

\* Longest line and most lines of a text handed to from_str in SpecBoard.
MaxText == 2

\* Most moves applied in a row to one board in SpecBoard.
MaxMoves == 3

\* Most calls of Game.move on a game that Game.play has finished.
MaxLate == 1

\* ------------------------------------------------------------ Python values
\* Python's None (the content of an empty cell); no one-character token.
None == "None"

\* labels='xo' of TicTacToeGame.new: a string, iterated character by character.
Labels == <<"x", "o">>

\* The characters of a text board: the labels and the empty marker.
Chars == {"x", "o", "."}

\* range(n)
Range(n) == 0 .. (n - 1)

\* ---------------------------------------------------------------- ChainMap
\* A ChainMap is its list of maps, newest first; a map is a function whose
\* domain is its set of keys.

\* ChainMap.keys(): the union of the maps' keys.
Keys(cm) == UNION {DOMAIN cm[i] : i \in 1 .. Len(cm)}

\* ChainMap.__getitem__ for a key that is present: the first map that has it.
Get(cm, loc) ==
    LET i == CHOOSE j \in 1 .. Len(cm) :
                 /\ loc \in DOMAIN cm[j]
                 /\ \A k \in 1 .. (j - 1) : loc \notin DOMAIN cm[k]
    IN  cm[i][loc]

\* ChainMap.values(): one value per key, the one the lookup finds.
Values(cm) == {Get(cm, loc) : loc \in Keys(cm)}

\* A ChainMap as a plain mapping: every key with the value the lookup finds.
Cells(cm) == [loc \in Keys(cm) |-> Get(cm, loc)]

\* ChainMap.new_child(m): a new ChainMap, m in front of the same maps.
NewChild(cm, m) == <<m>> \o cm

\* ---------------------------------------------------------- TicTacToeState
\* A TicTacToeState is represented by its board, a ChainMap.

\* int(x ** 0.5): the integer part of the square root.
ISqrt(n) == CHOOSE k \in 0 .. n : k * k <= n /\ n < (k + 1) * (k + 1)

\* TicTacToeState.new(size): one map over range(size) x range(size), all None.
New(size) == << [loc \in Range(size) \X Range(size) |-> None] >>

\* The locations a text yields: (row, col) for every character of every line.
TextLocs(lines) ==
    UNION { {<<r - 1, c - 1>> : c \in 1 .. Len(lines[r])} : r \in 1 .. Len(lines) }

\* TicTacToeState.from_str(board_str), on the lines board_str.split() yields.
FromStr(lines) ==
    << [loc \in TextLocs(lines) |->
           LET player == lines[loc[1] + 1][loc[2] + 1]
           IN  IF player # "." THEN player ELSE None] >>

\* TicTacToeState.size()
Size(cm) == ISqrt(Cardinality(Keys(cm)))

\* __str__ that reads the cell (col, row) where it is to read (row, col).
RenderTransposed(cm) ==
    LET size == Size(cm)
    IN  IF \E loc \in Range(size) \X Range(size) : loc \notin Keys(cm)
        THEN [status |-> "KeyError", rows |-> << >>]
        ELSE [status |-> "ok",
              rows |-> [r \in 1 .. size |-> [c \in 1 .. size |->
                          LET data == Get(cm, <<c - 1, r - 1>>)
                          IN  IF data # None THEN data ELSE "."]]]

\* The loops of TicTacToeState.__str__(): for every row and col of
\* range(size()), the cell's label, or '.' for None; the lookup of a location
\* the board does not have raises KeyError.  rows holds the characters
\* appended, row by row.
Render(cm) ==
    LET size == Size(cm)
    IN  IF \E loc \in Range(size) \X Range(size) : loc \notin Keys(cm)
        THEN [status |-> "KeyError", rows |-> << >>]
        ELSE [status |-> "ok",
              rows |-> [r \in 1 .. size |-> [c \in 1 .. size |->
                          LET data == Get(cm, <<r - 1, c - 1>>)
                          IN  IF data # None THEN data ELSE "."]]]

\* ''.join(stuff): the characters of every row, a newline after each row.
RECURSIVE Join(_, _)
Join(rows, r) ==
    IF r > Len(rows) THEN << >>
    ELSE rows[r] \o <<"\n">> \o Join(rows, r + 1)

\* The whitespace str.split() splits on, as far as texts here have any.
Whitespace == {" ", "\n"}

\* str.split(): the runs of characters that are not whitespace, in order.
RECURSIVE SplitFrom(_, _, _, _)
SplitFrom(text, i, word, done) ==
    LET closed == IF word = << >> THEN done ELSE Append(done, word)
    IN  IF i > Len(text) THEN closed
        ELSE IF text[i] \in Whitespace
        THEN SplitFrom(text, i + 1, << >>, closed)
        ELSE SplitFrom(text, i + 1, Append(word, text[i]), done)

Split(text) == SplitFrom(text, 1, << >>, << >>)

\* str(state): the text, a sequence of characters, or the KeyError raised.
Str(cm) ==
    LET out == Render(cm)
    IN  [status |-> out.status, text |-> Join(out.rows, 1)]

\* No state: what a call yields when it raises.
NoState == << >>

\* move that writes the label into the receiver's own first map.
MoveInPlace(cm, loc, label) ==
    IF loc \notin Keys(cm)
    THEN [status |-> "InvalidLocation", loc |-> loc, contents |-> None,
          state |-> NoState, self |-> cm]
    ELSE IF Get(cm, loc) # None
    THEN [status |-> "AlreadyOccupied", loc |-> loc, contents |-> Get(cm, loc),
          state |-> NoState, self |-> cm]
    ELSE LET written == [cm EXCEPT ![1] = [k \in DOMAIN cm[1] \cup {loc} |->
                                              IF k = loc THEN label ELSE cm[1][k]]]
         IN  [status |-> "ok", loc |-> loc, contents |-> None,
              state |-> written, self |-> written]

\* move that reports the label offered, not the cell's contents.
MoveWrongContents(cm, loc, label) ==
    IF loc \notin Keys(cm)
    THEN [status |-> "InvalidLocation", loc |-> loc, contents |-> None,
          state |-> NoState, self |-> cm]
    ELSE IF Get(cm, loc) # None
    THEN [status |-> "AlreadyOccupied", loc |-> loc, contents |-> label,
          state |-> NoState, self |-> cm]
    ELSE [status |-> "ok", loc |-> loc, contents |-> None,
          state |-> NewChild(cm, [k \in {loc} |-> label]), self |-> cm]

\* move that writes the cell without looking the location up first.
MoveUnchecked(cm, loc, label) ==
    IF loc \in Keys(cm) /\ Get(cm, loc) # None
    THEN [status |-> "AlreadyOccupied", loc |-> loc, contents |-> Get(cm, loc),
          state |-> NoState, self |-> cm]
    ELSE [status |-> "ok", loc |-> loc, contents |-> None,
          state |-> NewChild(cm, [k \in {loc} |-> label]), self |-> cm]

\* TicTacToeState.move(loc, label).  status is "ok" or the exception raised;
\* state is the TicTacToeState returned; self is the receiver after the call.
Move(cm, loc, label) ==
    IF loc \notin Keys(cm)
    THEN [status |-> "InvalidLocation", loc |-> loc, contents |-> None,
          state |-> NoState, self |-> cm]
    ELSE IF Get(cm, loc) # None
    THEN [status |-> "AlreadyOccupied", loc |-> loc, contents |-> Get(cm, loc),
          state |-> NoState, self |-> cm]
    ELSE [status |-> "ok", loc |-> loc, contents |-> None,
          state |-> NewChild(cm, [k \in {loc} |-> label]), self |-> cm]

\* The loop of RandomPlayer.get_move over the shuffled list.  The shuffle may
\* put the locations in any order, so the location the loop takes next is any
\* of those not yet tried: a trial board.move(loc, label) that raises
\* (MoveError is a ValueError) passes on to the next location, the first that
\* succeeds returns loc, and the list run out raises ValueError.  The result
\* is the set of outcomes, one for each order; self is the board afterwards.
RECURSIVE TryLocs(_, _, _)
TryLocs(cm, label, untried) ==
    IF untried = {}
    THEN {[status |-> "ValueError", loc |-> << >>, self |-> cm]}
    ELSE UNION {LET out == Move(cm, loc, label)
                IN  IF out.status = "ok"
                    THEN {[status |-> "ok", loc |-> loc, self |-> out.self]}
                    ELSE TryLocs(out.self, label, untried \ {loc})
                : loc \in untried}

\* RandomPlayer.get_move(board), the player's label being label.
RandomGetMove(cm, label) == TryLocs(cm, label, Keys(cm))

\* TicTacToeState.full()
Full(cm) == \A data \in Values(cm) : data # None

\* The two diagonals of victory()'s checks.
Diagonal(cm) == {loc \in Keys(cm) : loc[1] = loc[2]}

\* The anti-diagonal taken as row == size - col.
AntiDiagonalOffByOne(cm, size) == {loc \in Keys(cm) : loc[1] = size - loc[2]}

AntiDiagonal(cm, size) == {loc \in Keys(cm) : loc[1] = size - 1 - loc[2]}

\* checks: both diagonals, then every row i and column i for i in range(size).
Checks(cm) ==
    LET size == Size(cm)
    IN  {Diagonal(cm), AntiDiagonal(cm, size)}
          \cup {{loc \in Keys(cm) : loc[1] = i} : i \in Range(size)}
          \cup {{loc \in Keys(cm) : loc[2] = i} : i \in Range(size)}

\* TicTacToeState.victory()
Victory(cm) ==
    \E locs \in Checks(cm) :
        LET values == {Get(cm, loc) : loc \in locs}
        IN  Cardinality(values) = 1 /\ values # {None}

\* game_over that looks at the empty cells only.
GameOverFullOnly(cm) == Full(cm)

\* game_over that looks at the lines only.
GameOverVictoryOnly(cm) == Victory(cm)

\* TicTacToeState.game_over()
GameOverState(cm) == Full(cm) \/ Victory(cm)

\* ------------------------------------------------------------------- state
VARIABLES
    board,   \* SpecBoard, SpecGrid: the TicTacToeState under test (NoState before it is built)
    call,    \* SpecBoard, SpecGrid: the last call made and what it yielded
    states,  \* Spec: Game.states, the list of TicTacToeStates, oldest first
    turns,   \* Spec: Game.turns, the cycle: the index of the pair next() yields next
    calls,   \* Spec: how many times Game.move has been called
    active,  \* Spec: the (player, label) of the last call of Game.move
    result,  \* Spec: what the last call of Game.move yielded
    pc,      \* Spec: where Game.play stands: "loop", "returned" or "raised"
    late,    \* Spec: calls of Game.move made after Game.play returned
    players  \* Spec: the players handed to the game: "stub" or "any"

vars == <<board, call, states, turns, calls, active, result, pc, late, players>>

boardVars == <<board, call>>
gameVars == <<states, turns, calls, active, result, pc, late, players>>

\* ------------------------------------------- inputs of SpecBoard and SpecGrid
\* The sizes handed to new(size): negative, zero and positive.
Sizes == (0 - 1) .. MaxSize

\* The lines of a text: one to MaxText characters.
Lines == UNION {[1 .. n -> Chars] : n \in 1 .. MaxText}

\* The texts handed to from_str, after split(): zero to MaxText lines.
Texts == UNION {[1 .. n -> Lines] : n \in 0 .. MaxText}

\* The texts of square grids: n lines of n characters, n up to MaxSize.
Grids == UNION {[1 .. n -> [1 .. n -> Chars]] : n \in 1 .. MaxSize}

\* The locations handed to move: the grid's own and a ring around it.
Coords == (0 - 1) .. MaxSize
Locs == Coords \X Coords

NoCall == [op |-> "none"]
NoResult == [kind |-> "none"]

\* The match is not part of SpecBoard and SpecGrid.
NoGame ==
    /\ states = << >>
    /\ turns = 0
    /\ calls = 0
    /\ active = << >>
    /\ result = NoResult
    /\ pc = "none"
    /\ late = 0
    /\ players = "none"

InitBoard ==
    /\ board = NoState
    /\ call = NoCall
    /\ NoGame

\* board = TicTacToeState.new(size): new has no path that raises.
CallNew ==
    /\ call.op = "none"
    /\ \E size \in Sizes :
          /\ board' = New(size)
          /\ call' = [op |-> "new", size |-> size, status |-> "ok"]
    /\ UNCHANGED gameVars

\* board = TicTacToeState.from_str(text): from_str has no path that raises.
CallFromStr ==
    /\ call.op = "none"
    /\ \E lines \in Texts :
          /\ board' = FromStr(lines)
          /\ call' = [op |-> "from_str", lines |-> lines, status |-> "ok"]
    /\ UNCHANGED gameVars

\* board.move(loc, label) on the board under test.  call records the receiver
\* before the call and what the call yielded (out.self: the receiver after
\* it); the state a successful move returns is the next board under test.
CallMove ==
    /\ call.op \in {"new", "from_str", "move"}
    /\ Len(board) <= MaxMoves
    /\ \E loc \in Locs, i \in DOMAIN Labels :
          LET out == Move(board, loc, Labels[i])
          IN  /\ call' = [op |-> "move", before |-> board, label |-> Labels[i],
                          out |-> out]
              /\ board' = IF out.status = "ok" THEN out.state ELSE board
    /\ UNCHANGED gameVars

\* str(board) on the board under test, and from_str on the text it yields:
\* back is the board parsed from the text (NoState when str raised).
CallStr ==
    /\ call.op \in {"new", "from_str", "move"}
    /\ LET out == Str(board)
       IN  call' = [op |-> "str", before |-> board, out |-> out,
                    back |-> IF out.status = "ok"
                             THEN FromStr(Split(out.text)) ELSE NoState]
    /\ UNCHANGED <<board, gameVars>>

\* RandomPlayer.get_move(board) on the board under test, by a player set up
\* with one of the labels.
CallGetMove ==
    /\ call.op \in {"new", "from_str", "move"}
    /\ \E i \in DOMAIN Labels :
          \E out \in RandomGetMove(board, Labels[i]) :
             /\ call' = [op |-> "get_move", before |-> board,
                         label |-> Labels[i], out |-> out]
             /\ board' = out.self
    /\ UNCHANGED gameVars

NextBoard ==
    \/ CallNew
    \/ CallFromStr
    \/ CallMove
    \/ CallStr
    \/ CallGetMove

SpecBoard == InitBoard /\ [][NextBoard]_vars

\* The square grids, and the queries on them.
GridFromStr ==
    /\ call.op = "none"
    /\ \E lines \in Grids :
          /\ board' = FromStr(lines)
          /\ call' = [op |-> "from_str", lines |-> lines, status |-> "ok"]
    /\ UNCHANGED gameVars

\* board.full(), board.victory() and board.game_over() on the grid built.
CallQueries ==
    /\ call.op = "from_str"
    /\ call' = [op |-> "queries", lines |-> call.lines, full |-> Full(board),
                victory |-> Victory(board), game_over |-> GameOverState(board)]
    /\ UNCHANGED <<board, gameVars>>

\* str(board) on the grid built, as in test_tictactoeboard: split is what
\* str(board).split() yields.
GridStr ==
    /\ call.op = "from_str"
    /\ LET out == Str(board)
       IN  call' = [op |-> "str", lines |-> call.lines, out |-> out,
                    split |-> Split(out.text)]
    /\ UNCHANGED <<board, gameVars>>

NextGrid ==
    \/ GridFromStr
    \/ CallQueries
    \/ GridStr

SpecGrid == InitBoard /\ [][NextGrid]_vars

\* ------------------------------------------------- the board, stated plainly
\* The cells of a board, replaying its maps from the oldest to the newest:
\* each map overrides what the older ones hold.
RECURSIVE Replay(_, _)
Replay(cm, i) ==
    IF i > Len(cm) THEN [loc \in {} |-> None]
    ELSE cm[i] @@ Replay(cm, i + 1)

\* The content of a cell.
Content(cm, loc) == Replay(cm, 1)[loc]

\* The grid of an n x n board and its candidate lines.
Grid(n) == Range(n) \X Range(n)
Row(n, i) == {<<i, c>> : c \in Range(n)}
Column(n, i) == {<<r, i>> : r \in Range(n)}
MainDiagonal(n) == {<<i, i>> : i \in Range(n)}
SecondDiagonal(n) == {<<i, n - 1 - i>> : i \in Range(n)}
CandidateLines(n) ==
    {Row(n, i) : i \in Range(n)} \cup {Column(n, i) : i \in Range(n)}
      \cup {MainDiagonal(n), SecondDiagonal(n)}

\* No cell of the board is empty.
IsFull(cm) == \A loc \in Keys(cm) : Content(cm, loc) # None

\* Some candidate line holds one label, the same, in every cell.
HasWinningLine(cm, n) ==
    \E line \in CandidateLines(n) : \E first \in line :
        /\ Content(cm, first) # None
        /\ \A loc \in line : Content(cm, loc) = Content(cm, first)

\* C1: move on an in-bounds empty cell succeeds; the board returned has the
\* receiver's cells except that the location holds the label; the receiver
\* (its maps, hence its render, full(), victory(), game_over()) is as before.
C1_MoveOnEmptyCell ==
    (/\ call.op = "move"
     /\ call.out.loc \in Grid(Size(call.before)) \cap Keys(call.before)
     /\ Content(call.before, call.out.loc) = None)
    => /\ call.out.status = "ok"
       /\ board = call.out.state
       /\ Keys(call.out.state) = Keys(call.before)
       /\ \A loc \in Keys(call.before) :
             Content(call.out.state, loc) =
                IF loc = call.out.loc THEN call.label ELSE Content(call.before, loc)
       /\ call.out.self = call.before

\* A move has succeeded on a board that earlier moves had already layered,
\* with another cell occupied.
C1_Witness ==
    /\ call.op = "move"
    /\ call.out.status = "ok"
    /\ Len(call.before) > 1
    /\ Keys(call.before) = Grid(3)
    /\ Content(call.before, call.out.loc) = None
    /\ \E loc \in Keys(call.before) : Content(call.before, loc) # None

\* C2: on an n x n grid, victory() is true exactly when some row, column, the
\* main diagonal or the anti-diagonal holds one label in all its n cells.
C2_VictoryIffWinningLine ==
    call.op = "queries"
    => (call.victory <=> HasWinningLine(board, Len(call.lines)))

\* victory() has answered true on a 3 x 3 grid whose only line is the
\* anti-diagonal.
C2_Witness ==
    /\ call.op = "queries"
    /\ call.victory
    /\ call.lines = << <<"x", "x", "o">>, <<".", "o", ".">>, <<"o", "x", "x">> >>

\* C8: move on an occupied cell raises AlreadyOccupied, whatever the label,
\* carrying the occupant; no board is returned and the receiver is as before.
C8_MoveOnOccupiedCell ==
    (/\ call.op = "move"
     /\ call.out.loc \in Keys(call.before)
     /\ Content(call.before, call.out.loc) # None)
    => /\ call.out.status = "AlreadyOccupied"
       /\ call.out.contents = Content(call.before, call.out.loc)
       /\ call.out.state = NoState
       /\ call.out.self = call.before
       /\ board = call.before

\* A move with label x has been refused on a cell that an earlier move gave
\* to o.
C8_Witness ==
    /\ call.op = "move"
    /\ call.out.status = "AlreadyOccupied"
    /\ call.out.contents = "o"
    /\ call.label = "x"
    /\ Len(call.before) > 1
    /\ call.out.loc \in DOMAIN call.before[1]
    /\ Content(call.before, call.out.loc) = "o"

\* C9: move on a location outside [0,n) x [0,n), n the board's size(), raises
\* InvalidLocation; no board is returned and the receiver is as before.
C9_MoveOutOfRange ==
    (/\ call.op = "move"
     /\ call.out.loc \notin Grid(Size(call.before)))
    => /\ call.out.status = "InvalidLocation"
       /\ call.out.state = NoState
       /\ call.out.self = call.before

\* C10: new(size) fails for size <= 0; for size >= 1 it yields size^2 cells,
\* all empty.
C10_NewRejectsNonPositive ==
    call.op = "new"
    => /\ call.size <= 0 => (call.status # "ok" /\ board = NoState)
       /\ call.size >= 1 =>
             /\ Keys(board) = Grid(call.size)
             /\ \A loc \in Keys(board) : Content(board, loc) = None

\* The rows of a text differ in length.
Ragged(lines) ==
    \E r \in 1 .. Len(lines) : Len(lines[r]) # Len(lines[1])

\* The number of characters of a text, all rows together.
RECURSIVE CountCells(_, _)
CountCells(lines, r) ==
    IF r > Len(lines) THEN 0 ELSE Len(lines[r]) + CountCells(lines, r + 1)

\* The number is not a perfect square.
NotSquare(k) == \A n \in 0 .. k : n * n # k

\* C11: from_str fails, yielding no board, when the rows of the text differ in
\* length or the cells are not a perfect square in number; a board it returns
\* has the cells [0,n) x [0,n) for some n.
C11_FromStrRejectsNonSquare ==
    call.op = "from_str"
    => /\ (Ragged(call.lines) \/ NotSquare(CountCells(call.lines, 1)))
             => (call.status # "ok" /\ board = NoState)
       /\ call.status = "ok" =>
             \E n \in 0 .. MaxText : Keys(board) = Grid(n)

\* The board under test comes from new(n): its oldest map is the one new(n)
\* made, and every newer map is the layer of a successful move.
FromNew(n) ==
    /\ board # NoState
    /\ board[Len(board)] = New(n)[1]

\* C12: a board obtained from new(n), n >= 1, by successful moves (failed
\* attempts in between) has exactly the n^2 cells [0,n) x [0,n) and size()
\* returns n; a move neither adds nor removes a location.
C12_ShapeInvariant ==
    \A n \in 1 .. MaxSize :
        FromNew(n)
        => /\ Keys(board) = Grid(n)
           /\ Cardinality(Keys(board)) = n * n
           /\ Size(board) = n
           /\ call.op = "move" =>
                 /\ Keys(call.out.self) = Keys(call.before)
                 /\ call.out.status = "ok" => Keys(call.out.state) = Keys(call.before)

\* A 3 x 3 board from new(3) has taken two moves and then refused one that
\* named a location off the board.
C12_Witness ==
    /\ FromNew(3)
    /\ Len(board) = 3
    /\ call.op = "move"
    /\ call.out.status = "InvalidLocation"
    /\ call.out.loc \notin Grid(3)
    /\ Size(board) = 3

\* C13: for every board built by new or from_str and successful moves,
\* from_str(str(board)) has the same locations as the board and the same
\* content in every cell.
C13_RenderThenParse ==
    call.op = "str"
    => /\ call.out.status = "ok"
       /\ Keys(call.back) = Keys(call.before)
       /\ \A loc \in Keys(call.before) :
             Content(call.back, loc) = Content(call.before, loc)

\* C14: for every text of n rows of n characters, each a label or '.',
\* str(from_str(text)) holds the same rows, in order, with the same
\* characters, whitespace aside.
C14_ParseThenRender ==
    call.op = "str"
    => /\ call.out.status = "ok"
       /\ call.split = call.lines

\* A 3 x 3 grid with labels and empty cells, not its own transpose, has been
\* parsed and rendered.
C14_Witness ==
    /\ call.op = "str"
    /\ call.lines = << <<"x", "o", "x">>, <<"o", "x", "o">>, <<"o", "x", ".">> >>
    /\ call.out.status = "ok"
    /\ call.out.text = <<"x", "o", "x", "\n", "o", "x", "o", "\n", "o", "x", ".", "\n">>

\* C15: game_over() is true exactly when full() or victory() is, and full()
\* exactly when no cell is empty: a board with a winning line is over though
\* it is not full, and a board neither full nor won is not over.
C15_GameOverIffFullOrVictory ==
    call.op = "queries"
    => LET n == Len(call.lines)
       IN  /\ call.game_over <=> (call.full \/ call.victory)
           /\ call.full <=> IsFull(board)
           /\ (HasWinningLine(board, n) /\ ~IsFull(board)) => call.game_over
           /\ (~HasWinningLine(board, n) /\ ~IsFull(board)) => ~call.game_over

\* game_over() has answered true on a 3 x 3 grid whose top row is won and
\* which has empty cells.
C15_Witness ==
    /\ call.op = "queries"
    /\ call.lines = << <<"x", "x", "x">>, <<"o", "o", ".">>, <<".", ".", ".">> >>
    /\ call.game_over
    /\ ~call.full
    /\ call.victory

\* C16: RandomPlayer.get_move, whatever the shuffle: on a board with an empty
\* cell it returns a location in bounds ([0,n) x [0,n), n the board's size())
\* and empty on that board, so that move on it succeeds; it leaves the board
\* as it was; it fails only if every location is occupied.
C16_RandomMoveIsLegal ==
    call.op = "get_move"
    => /\ call.out.self = call.before
       /\ board = call.before
       /\ (\E loc \in Keys(call.before) : Content(call.before, loc) = None)
             => /\ call.out.status = "ok"
                /\ call.out.loc \in Grid(Size(call.before))
                /\ call.out.loc \in Keys(call.before)
                /\ Content(call.before, call.out.loc) = None
                /\ Move(call.before, call.out.loc, call.label).status = "ok"
       /\ call.out.status # "ok"
             => \A loc \in Keys(call.before) : Content(call.before, loc) # None

\* -------------------------------------------------------------------- Game
\* The players handed to TicTacToeGame.new, in order.
Players == <<"p1", "p2">>

Min(a, b) == IF a <= b THEN a ELSE b

\* zip(players, labels): as many pairs as the shorter of the two.
Pairs == [i \in 1 .. Min(Len(Players), Len(Labels)) |-> <<Players[i], Labels[i]>>]

\* A cycle that yields the same pair again.
NextTurnStuck(i) == i

\* cycle(...): after next() has yielded the pair at index i, the index of the
\* pair it yields next; the list starts again after its last pair.
NextTurn(i) == IF i = Len(Pairs) THEN 1 ELSE i + 1

LabelSet == {Labels[i] : i \in DOMAIN Labels}
PlayerSet == {Players[i] : i \in DOMAIN Players}

\* GameOver.victory(labels, winner).scores and GameOver.draw(labels).scores
VictoryScores(winner) == [label \in LabelSet |-> IF label = winner THEN 1 ELSE 0]
DrawScores == [label \in LabelSet |-> 0]

NoScores == << >>

\* What a call of Game.move yields: it returns the new state, or raises
\* GameOver (with scores) or Forfeit (with the loser and the reason).
Returned == [kind |-> "returned", scores |-> NoScores, loser |-> "none", reason |-> "none"]
RaisedGameOver(scores) ==
    [kind |-> "GameOver", scores |-> scores, loser |-> "none", reason |-> "none"]
RaisedForfeit(loser, reason) ==
    [kind |-> "Forfeit", scores |-> NoScores, loser |-> loser, reason |-> reason]

\* Game.current_state()
CurrentState == states[Len(states)]

\* The eight symmetries of an n x n grid, as maps of locations.
Image(k, loc, n) ==
    LET r == loc[1]
        c == loc[2]
        m == n - 1
    IN  CASE k = 1 -> <<r, c>>
          [] k = 2 -> <<c, m - r>>
          [] k = 3 -> <<m - r, m - c>>
          [] k = 4 -> <<m - c, r>>
          [] k = 5 -> <<r, m - c>>
          [] k = 6 -> <<m - r, c>>
          [] k = 7 -> <<c, r>>
          [] k = 8 -> <<m - c, m - r>>

\* The symmetries that leave a state's cells as they are.
Stabilizer(cm) ==
    LET cells == Cells(cm)
        n == Size(cm)
    IN  {k \in 1 .. 8 : \A loc \in DOMAIN cells :
            /\ Image(k, loc, n) \in DOMAIN cells
            /\ cells[Image(k, loc, n)] = cells[loc]}

Before(a, b) == a[1] < b[1] \/ (a[1] = b[1] /\ a[2] <= b[2])

\* Locations off an n x n board: one beyond each edge and each corner.
OffBoard(n) == {loc \in {0 - 1, 0, n} \X {0 - 1, 0, n} : loc \notin Grid(n)}

\* What player.get_move(state) does: it raises, or returns a location.  The
\* locations are some off the board and, of the board's own, one
\* for each class under the symmetries that leave the state as it is (the
\* first in row-major order): the others give the same match, mirrored.
Raises == "raises"
OnBoard(cm) ==
    LET n == Size(cm)
        same == Stabilizer(cm)
    IN  {loc \in Keys(cm) : \A k \in same : Before(loc, Image(k, loc, n))}
GetMoves(cm) == {Raises} \cup OffBoard(Size(cm)) \cup OnBoard(cm)

\* The players of a match are of one of two kinds.  "stub": subclasses of
\* Player whose get_move returns an empty cell of the board whenever there is
\* one, and whose observe is Player.observe, which does nothing.  "any": their
\* get_move and observe may do anything.
Kinds == {"stub", "any"}

\* What get_move of a player of the kind does on a state.
GetMovesOf(kind, cm) ==
    LET empty == {loc \in OnBoard(cm) : Get(cm, loc) = None}
    IN  IF kind = "stub" /\ empty # {} THEN empty ELSE GetMoves(cm)

\* The sets of players whose observe may raise on a move.
FailingOf(kind) == IF kind = "stub" THEN {{}} ELSE SUBSET PlayerSet

\* The players whose observe is called: in the order of self.players, up to
\* and with the first whose observe raises (failing: the players whose observe
\* raises), all of them if none does.
Notified(failing) ==
    IF \E i \in DOMAIN Players : Players[i] \in failing
    THEN LET i == CHOOSE j \in DOMAIN Players :
                     /\ Players[j] \in failing
                     /\ \A h \in 1 .. (j - 1) : Players[h] \notin failing
         IN  SubSeq(Players, 1, i)
    ELSE Players

\* What a call yielded, with what the observers did in it.
WithObservers(yielded, failing) ==
    [kind |-> yielded.kind, scores |-> yielded.scores, loser |-> yielded.loser,
     reason |-> yielded.reason, failing |-> failing, notified |-> Notified(failing)]

\* The end of Game.move() with the full board looked at before the lines.
ObservedFullFirst(new, label, failing) ==
    LET notified == Notified(failing)
    IN  WithObservers(
            IF notified[Len(notified)] \in failing
            THEN RaisedForfeit(notified[Len(notified)], "observe")
            ELSE IF GameOverState(new)
            THEN IF Full(new)
                 THEN RaisedGameOver(DrawScores)
                 ELSE RaisedGameOver(VictoryScores(label))
            ELSE Returned,
            failing)

\* The end of Game.move() with the game-over check made before the observers
\* are called.
ObservedAfterCheck(new, label, failing) ==
    LET notified == Notified(failing)
    IN  WithObservers(
            IF GameOverState(new)
            THEN IF Victory(new)
                 THEN RaisedGameOver(VictoryScores(label))
                 ELSE RaisedGameOver(DrawScores)
            ELSE IF notified[Len(notified)] \in failing
            THEN RaisedForfeit(notified[Len(notified)], "observe")
            ELSE Returned,
            failing)

\* The end of Game.move() once the new state is appended: every player
\* observes the move, in the order of self.players, and the first whose observe
\* raises forfeits; then a state that is over raises GameOver, with the victory
\* scores of the label just placed if a line is won and the draw scores if not.
Observed(new, label, failing) ==
    LET notified == Notified(failing)
    IN  WithObservers(
            IF notified[Len(notified)] \in failing
            THEN RaisedForfeit(notified[Len(notified)], "observe")
            ELSE IF GameOverState(new)
            THEN IF Victory(new)
                 THEN RaisedGameOver(VictoryScores(label))
                 ELSE RaisedGameOver(DrawScores)
            ELSE Returned,
            failing)

\* Game.move() that puts the new state in the place of the current one.
GameMoveReplaces ==
    LET player == Pairs[turns][1]
        label == Pairs[turns][2]
        state == CurrentState
    IN  /\ turns' = NextTurn(turns)
        /\ calls' = calls + 1
        /\ active' = Pairs[turns]
        /\ UNCHANGED players
        /\ \E got \in GetMovesOf(players, state) :
              IF got = Raises
              THEN /\ result' = RaisedForfeit(player, "Exception")
                   /\ UNCHANGED states
              ELSE LET out == Move(state, got, label)
                   IN  IF out.status # "ok"
                       THEN /\ result' = RaisedForfeit(player, out.status)
                            /\ UNCHANGED states
                       ELSE /\ states' = [states EXCEPT ![Len(states)] = out.state]
                            /\ \E failing \in FailingOf(players) :
                                  result' = Observed(out.state, label, failing)

\* Game.move() that appends to the history before the move is accepted.
GameMoveAppendsFirst ==
    LET player == Pairs[turns][1]
        label == Pairs[turns][2]
        state == CurrentState
    IN  /\ turns' = NextTurn(turns)
        /\ calls' = calls + 1
        /\ active' = Pairs[turns]
        /\ UNCHANGED players
        /\ \E got \in GetMovesOf(players, state) :
              IF got = Raises
              THEN /\ result' = RaisedForfeit(player, "Exception")
                   /\ states' = Append(states, state)
              ELSE LET out == Move(state, got, label)
                   IN  IF out.status # "ok"
                       THEN /\ result' = RaisedForfeit(player, out.status)
                            /\ states' = Append(states, state)
                       ELSE /\ states' = Append(states, out.state)
                            /\ \E failing \in FailingOf(players) :
                                  result' = Observed(out.state, label, failing)

\* Game.move(): the next (player, label) of the cycle; what the player's
\* get_move does; the move on the current state; the append; the observers
\* and the game-over check.
GameMove ==
    LET player == Pairs[turns][1]
        label == Pairs[turns][2]
        state == CurrentState
    IN  /\ turns' = NextTurn(turns)
        /\ calls' = calls + 1
        /\ active' = Pairs[turns]
        /\ UNCHANGED players
        /\ \E got \in GetMovesOf(players, state) :
              IF got = Raises
              THEN /\ result' = RaisedForfeit(player, "Exception")
                   /\ UNCHANGED states
              ELSE LET out == Move(state, got, label)
                   IN  IF out.status # "ok"
                       THEN /\ result' = RaisedForfeit(player, out.status)
                            /\ UNCHANGED states
                       ELSE /\ states' = Append(states, out.state)
                            /\ \E failing \in FailingOf(players) :
                                  result' = Observed(out.state, label, failing)

\* The board is not part of Spec.
NoBoard ==
    /\ board = NoState
    /\ call = NoCall

\* game = TicTacToeGame.new(p1, p2, size=size); game.play() has printed the
\* state, set the players up and is about to call move().
Init ==
    /\ \E size \in Sizes : states = <<New(size)>>
    /\ turns = 1
    /\ calls = 0
    /\ active = << >>
    /\ result = NoResult
    /\ pc = "loop"
    /\ late = 0
    /\ players \in Kinds
    /\ NoBoard

\* A play that catches Forfeit and goes round the loop again.
AfterMoveRetries(kind) ==
    CASE kind = "GameOver" -> "returned"
      [] OTHER -> "loop"

\* Game.play after move(): GameOver is caught and play returns the scores;
\* Forfeit is not caught and leaves play; otherwise the loop goes round.
AfterMove(kind) ==
    CASE kind = "GameOver" -> "returned"
      [] kind = "Forfeit" -> "raised"
      [] OTHER -> "loop"

\* One round of Game.play's loop.
PlayTurn ==
    /\ pc = "loop"
    /\ GameMove
    /\ pc' = AfterMove(result'.kind)
    /\ UNCHANGED <<late, boardVars>>

\* Game.move() called again on the game after play() has returned its scores.
LateMove ==
    /\ pc = "returned"
    /\ late < MaxLate
    /\ GameMove
    /\ late' = late + 1
    /\ UNCHANGED <<pc, boardVars>>

Next ==
    \/ PlayTurn
    \/ LateMove

Spec == Init /\ [][Next]_vars

\* ------------------------------------------------- the match, stated plainly
\* The size the match was made with: its first state is the n x n grid.
GameSize == CHOOSE n \in 0 .. (MaxSize + 1) : Keys(states[1]) = Grid(n)

\* The reasons of a forfeit by the player asked for the move.
MoverReasons == {"Exception", "InvalidLocation", "AlreadyOccupied"}

\* The last call of Game.move applied its move: it appended the new state.
Applied ==
    /\ calls > 0
    /\ ~(result.kind = "Forfeit" /\ result.reason \in MoverReasons)

\* Index of the pair the k-th call (k = 0, 1, ...) is to use.
RoundRobin(k) == (k % Len(Players)) + 1

\* What the last call reported is what the new board calls for: Won for the
\* label just placed if it has a winning line, Drawn if it is full without
\* one, nothing (and play goes on) if it is not over.
OutcomeFitsBoard ==
    LET new == CurrentState
        label == active[2]
    IN  IF HasWinningLine(new, GameSize)
        THEN /\ result.kind = "GameOver"
             /\ result.scores[label] = 1
             /\ \A other \in LabelSet \ {label} : result.scores[other] = 0
        ELSE IF IsFull(new)
        THEN /\ result.kind = "GameOver"
             /\ \A any \in LabelSet : result.scores[any] = 0
        ELSE /\ result.kind = "returned"
             /\ late = 0 => pc = "loop"

\* C3 as stated: whenever a move is applied, the outcome fits the new board.
C3_OutcomeOfAppliedMove == Applied => OutcomeFitsBoard

\* C3: whenever a move is applied and no player's observe raises, a new board
\* with a winning line ends the match as Won for the label just placed (also
\* when the move fills the board), a full one without a line as Drawn with
\* every score 0, and one that is not over reports nothing.
C3_OutcomeOfObservedMove ==
    (Applied /\ result.kind # "Forfeit") => OutcomeFitsBoard

\* Game.play has ended on a move that wins and fills the 3 x 3 board.
C3_Witness ==
    /\ late = 0
    /\ result.kind = "GameOver"
    /\ GameSize = 3
    /\ IsFull(CurrentState)
    /\ HasWinningLine(CurrentState, 3)
    /\ result.scores[active[2]] = 1

\* C4: the k-th call of Game.move (k = 0, 1, ...) asks players[k mod n] and
\* places labels[k mod n]; with two players the same player is never asked
\* twice in a row.
C4_RoundRobin ==
    /\ turns = RoundRobin(calls)
    /\ calls > 0 =>
          /\ active = <<Players[RoundRobin(calls - 1)], Labels[RoundRobin(calls - 1)]>>
          /\ Applied => \A loc \in DOMAIN CurrentState[1] :
                            CurrentState[1][loc] = Labels[RoundRobin(calls - 1)]
    /\ calls > 1 => turns # RoundRobin(calls - 1)

\* The fourth call has asked the second player and placed its label.
C4_Witness ==
    /\ calls = 4
    /\ active = <<"p2", "o">>
    /\ Applied
    /\ Len(states) = 5

\* C5: Game.play on an empty board of size >= 1 with two stub players (every
\* proposal an empty in-bounds cell) ends in one outcome, a win or a draw,
\* after at most size^2 calls of Game.move: it never forfeits and never goes
\* round the loop once size^2 calls are made.
C5_PlayEndsWithinSizeSquared ==
    LET cells == Cardinality(Keys(states[1]))
    IN  (players = "stub" /\ cells >= 1 /\ late = 0)
        => /\ calls <= cells
           /\ pc \in {"loop", "returned"}
           /\ pc = "loop" => calls < cells /\ result.kind \in {"none", "returned"}
           /\ pc = "returned" =>
                 /\ result.kind = "GameOver"
                 /\ result.scores \in {VictoryScores(active[2]), DrawScores}

\* Game.play with stub players has returned a draw after nine moves on the
\* 3 x 3 board.
C5_Witness ==
    /\ players = "stub"
    /\ pc = "returned"
    /\ late = 0
    /\ calls = 9
    /\ result.scores = DrawScores

\* C6: when get_move raises or the board rejects the move, Game.move raises
\* Forfeit with the acting player as loser, and Game.play ends there.
C6_MoverForfeits ==
    (result.kind = "Forfeit" /\ result.reason \in MoverReasons)
    => /\ result.loser = Players[RoundRobin(calls - 1)]
       /\ result.loser = active[1]
       /\ late = 0 => pc = "raised"

\* The second player has forfeited in Game.play by proposing an occupied cell.
C6_Witness ==
    /\ late = 0
    /\ pc = "raised"
    /\ result.kind = "Forfeit"
    /\ result.reason = "AlreadyOccupied"
    /\ result.loser = "p2"
    /\ Len(states) > 1

\* C7: once Game.move has reported Won or Drawn, no later call of Game.move
\* appends a board to the history or reports a different outcome.
C7_TerminalAfterOutcome ==
    [][result.kind = "GameOver"
         => /\ states' = states
            /\ result'.kind = "GameOver" => result'.scores = result.scores]_vars

\* The last call reported Won: some label is scored 1.
ReportedWon ==
    /\ result.kind = "GameOver"
    /\ \E label \in LabelSet : result.scores[label] = 1

\* C17: in a match whose initial board is not over, whenever Game.move reports
\* Won, the label scored 1 holds every cell of some candidate line of the
\* final board, the line contains the cell just played, and the board before
\* the move had no winning line.
C17_WinnerOwnsLine ==
    (/\ ~(IsFull(states[1]) \/ HasWinningLine(states[1], GameSize))
     /\ ReportedWon)
    => LET winner == CHOOSE label \in LabelSet : result.scores[label] = 1
           new == CurrentState
           before == states[Len(states) - 1]
       IN  /\ \E line \in CandidateLines(GameSize) :
                 /\ DOMAIN new[1] \subseteq line
                 /\ \A loc \in line : Content(new, loc) = winner
           /\ ~HasWinningLine(before, GameSize)

\* The cells of a board that hold the label.
Marks(cm, label) ==
    LET cells == Replay(cm, 1)
    IN  {loc \in DOMAIN cells : cells[loc] = label}

\* The history holds one board more than calls were made; the cells of the
\* current board hold nothing but the two labels, in as many cells together as
\* calls were made; and the first label has as many cells as the second or
\* one more.
Balanced ==
    /\ Len(states) = calls + 1
    /\ \A cells \in {Replay(CurrentState, 1)} :
          LET first == Cardinality({loc \in DOMAIN cells : cells[loc] = Labels[1]})
              second == Cardinality({loc \in DOMAIN cells : cells[loc] = Labels[2]})
          IN  /\ first + second = calls
              /\ \A loc \in DOMAIN cells : cells[loc] \in LabelSet \cup {None}
              /\ first - second \in {0, 1}

\* C18: in a match of two players from an empty board, after every sequence
\* of calls of Game.move without a forfeit, the occupied cells of the current
\* board are as many as the calls made, the history holds one board more, and
\* the first label has as many cells as the second or one more: it is so
\* before the first call, and every call that does not forfeit keeps it so.
C18_MarkCountBalance ==
    /\ Balanced
    /\ [][(/\ calls' = calls + 1
            /\ result'.kind # "Forfeit"
            /\ Balanced)
           => Balanced']_vars

\* Nine calls without a forfeit have filled the 3 x 3 board: five cells of the
\* first label, four of the second, ten boards in the history.
C18_Witness ==
    /\ result.kind = "GameOver"
    /\ calls = 9
    /\ Len(states) = 10
    /\ Cardinality(Marks(CurrentState, "x")) = 5
    /\ Cardinality(Marks(CurrentState, "o")) = 4

\* C19: when a call of Game.move ends in a forfeit of the player asked (its
\* get_move raised, or the board refused the location with InvalidLocation or
\* AlreadyOccupied), Game.states, and with it the current board, is what it
\* was before the call.
C19_MoverForfeitKeepsStates ==
    [][(/\ calls' = calls + 1
        /\ result'.kind = "Forfeit"
        /\ result'.reason \in MoverReasons)
       => states' = states]_vars

\* After three moves applied the fourth call has ended in a forfeit for an
\* occupied cell, and the history holds the four boards it held.
C19_Witness ==
    /\ calls = 4
    /\ result.kind = "Forfeit"
    /\ result.reason = "AlreadyOccupied"
    /\ Len(states) = 4
    /\ Cardinality({loc \in Keys(CurrentState) : Content(CurrentState, loc) # None}) = 3

\* C20: Game.move appends the new board before the observe hooks run and
\* before the game-over check: when some player's observe raises, the call
\* ends in a Forfeit naming that player, the move stays applied to the current
\* board, the players later in the list are not notified, and no Won or Drawn
\* is reported, whether or not the new board is over.
C20_ObserverFailure ==
    [][(/\ calls' = calls + 1
        /\ Applied'
        /\ result'.failing # {})
       => LET new == states'[Len(states')]
              notified == result'.notified
              raiser == notified[Len(notified)]
          IN  /\ result'.kind = "Forfeit"
              /\ result'.reason = "observe"
              /\ result'.scores = NoScores
              /\ late' = 0 => pc' = "raised"
              /\ raiser \in result'.failing
              /\ result'.loser = raiser
              /\ \A i \in 1 .. Len(notified) : notified[i] = Players[i]
              /\ \A i \in 1 .. (Len(notified) - 1) : Players[i] \notin result'.failing
              /\ states' = Append(states, new)
              /\ Tail(new) = CurrentState
              /\ Cardinality(DOMAIN new[1]) = 1
              /\ \A loc \in DOMAIN new[1] :
                    /\ Content(CurrentState, loc) = None
                    /\ Content(new, loc) = active'[2]]_vars

\* The first player's observe has raised on the move that wins the 3 x 3
\* board for its own label: it forfeits, the second player is not notified,
\* and the won board is the current one.
C20_Witness ==
    /\ Applied
    /\ result.failing = {"p1"}
    /\ result.kind = "Forfeit"
    /\ result.loser = "p1"
    /\ result.notified = <<"p1">>
    /\ active = <<"p1", "x">>
    /\ GameSize = 3
    /\ HasWinningLine(CurrentState, 3)
    /\ pc = "raised"

====
